---- MODULE Spec2Model ----
\* A model of the venue-recommendation orchestration layer:
\*   src/src/orchestrator.py      VenueRecommendationOrchestrator
\*   src/src/agents/*.py          the four analysis agents and the supervisor
\* The language-model call (chain.ainvoke) is opaque: each call either
\* returns a parsed object or raises, chosen nondeterministically.
EXTENDS Integers, Sequences, FiniteSets, TLC

\* ------------------------------------------------------------------
\* Bounds of the model
\* ------------------------------------------------------------------
MaxPasses == 2       \* recommend calls made on one orchestrator instance
MaxRetryCalls == 2   \* direct _retry_agent invocations explored
MaxDocs == 2         \* length of the retrieved document list
MaxRecs == 2         \* entries in a parsed supervisor answer
MaxRequests == 2     \* requests served by the recommend endpoint
MaxCities == 2       \* cities in an event's location requirements

\* ------------------------------------------------------------------
\* Program constants
\* ------------------------------------------------------------------
MaxRetries == 3      \* default of max_retries in _retry_agent
DefaultTopN == 3     \* default of top_n in recommend
Ok == 200                    \* HTTP status of a served request
UnprocessableEntity == 422   \* HTTP status of UnprocessableEntityHTTPError
InternalServerError == 500   \* HTTP status of InternalHTTPError

PENDING == "pending"
SUCCESS == "success"
FAILURE == "failure"
AgentStatus == {PENDING, SUCCESS, FAILURE}

\* agent_results keeps this order: amenity, cost, location, capacity
Roles == {"amenity", "cost", "location", "capacity"}
Agents == Roles \cup {"supervisor"}

\* Outcome of one opaque chain.ainvoke call
LLMOutcomes == {"ok", "fail"}

\* A result object is identified by the run that produced it; None is NoResult.
NoResult == [role |-> "none", pass |-> 0, attempt |-> 0]
Result(r, p, k) == [role |-> r, pass |-> p, attempt |-> k]
\* recommendations.get(name, "") yields "" for a missing key
Empty == [role |-> "empty", pass |-> 0, attempt |-> 0]
\* truthiness of a result: None is falsy, a pydantic object is truthy
Truthy(res) == res # NoResult

VARIABLES
    agent_status,     \* agent -> AgentStatus            (BaseAgent._agent_status)
    pass,             \* number of recommend calls started on this instance
    rpc,              \* position of the current recommend call
    task,             \* role -> the run dispatched by the current gather:
                      \*   pc "llm"/"llm2" awaiting an opaque call,
                      \*   "ok" returned, "raised" ended with an exception;
                      \*   llm_raised: an opaque call of the run raised
                      \*   llm_calls: chain.ainvoke calls the run issued
    orphan,           \* role -> runs of earlier passes still in flight
    recommendations,  \* role -> result stored in the output mapping, or NoResult
    readStatus,       \* role -> agent_status as read at orchestrator.py:63
    synthCalls,       \* supervisor.run invocations of the current pass
    synthArgs,        \* role -> value passed in that role's slot
    retryInvoked,     \* roles for which the current pass called _retry_agent
    runCalls,         \* role -> run invocations made by the current pass
    top_n,            \* the top_n argument of the current recommend call
    outcome,          \* what the current recommend call produced;
                      \*   synth_raised: the supervisor's opaque call raised
    rt,               \* role -> state of a _retry_agent invocation, with
                      \*   after: the role's status after each run it made,
                      \*   read: each status it read at orchestrator.py:125,
                      \*   running: runs it started that have not ended
    scoring,          \* role -> how the opaque scoring operation answers the
                      \*   role's inputs: always "ok", always "fail", or "any"
    retryCallsMade,   \* number of _retry_agent invocations so far
    docs,             \* retrieved_documents
    venuesGiven,      \* role -> venue list passed to the role's _analyze_*
    req,              \* the request the recommend endpoint is serving
    srch              \* a search_documents call: its event and its course

vars == <<agent_status, pass, rpc, task, orphan, recommendations, readStatus,
          synthCalls, synthArgs, retryInvoked, runCalls, top_n, outcome, rt,
          retryCallsMade, scoring,
          docs, venuesGiven, req, srch>>

orchVars == <<pass, rpc, task, orphan, recommendations, readStatus,
              synthCalls, synthArgs, retryInvoked, runCalls, top_n,
              outcome>>
retryVars == <<rt, retryCallsMade, scoring>>
docVars == <<docs, venuesGiven>>
routerVars == <<req>>
searchVars == <<srch>>

\* ------------------------------------------------------------------
\* The agents: one step of run() at the completion of an opaque call.
\* stage "llm"  : the (first) chain.ainvoke of the run is in flight
\* stage "llm2" : LocationAgent's second chain.ainvoke is in flight
\* Each operator yields the next position of the run and the new status.
\* "ok" = run returns its result, "raised" = run raises to its caller.
\* ------------------------------------------------------------------
\* A variant of CapacityRunStep in which run hands the None of a caught
\* failure on to its caller instead of dereferencing it.
CapacityRunStepReturnsNone(stage, o, st) ==
    IF o = "ok" THEN [next |-> "ok", status |-> SUCCESS]
                ELSE [next |-> "null", status |-> FAILURE]

\* A faulty variant of CapacityRunStep: the status is not set on success.
CapacityRunStepNoSuccess(stage, o, st) ==
    IF o = "ok" THEN [next |-> "ok", status |-> st]
                ELSE [next |-> "raised", status |-> FAILURE]

\* capacity.py:221-248: the failure is caught, status FAILURE, None returned;
\* run then evaluates result.model_dump_json on None, which raises.
CapacityRunStep(stage, o, st) ==
    IF o = "ok" THEN [next |-> "ok", status |-> SUCCESS]
                ELSE [next |-> "raised", status |-> FAILURE]

\* cost.py:188-230: same shape as the capacity agent
CostRunStep(stage, o, st) ==
    IF o = "ok" THEN [next |-> "ok", status |-> SUCCESS]
                ELSE [next |-> "raised", status |-> FAILURE]

\* amenity.py:188-233: the except clause logs and re-raises; status untouched
AmenityRunStep(stage, o, st) ==
    IF o = "ok" THEN [next |-> "ok", status |-> SUCCESS]
                ELSE [next |-> "raised", status |-> st]

\* location.py:204-260: a first ainvoke outside any try, then a second
\* one inside try/except
LocationRunStep(stage, o, st) ==
    IF stage = "llm"
    THEN IF o = "ok" THEN [next |-> "llm2", status |-> st]
                     ELSE [next |-> "raised", status |-> st]
    ELSE IF o = "ok" THEN [next |-> "ok", status |-> SUCCESS]
                     ELSE [next |-> "raised", status |-> FAILURE]

RunStep(r, stage, o, st) ==
    CASE r = "capacity" -> CapacityRunStep(stage, o, st)
      [] r = "cost"     -> CostRunStep(stage, o, st)
      [] r = "amenity"  -> AmenityRunStep(stage, o, st)
      [] r = "location" -> LocationRunStep(stage, o, st)

\* A faulty variant of SupervisorRunStep: the status is set before the call
\* and the except clause does not reset it.
SupervisorRunStepKeepsSuccess(o) ==
    IF o = "ok" THEN [next |-> "ok", status |-> SUCCESS]
                ELSE [next |-> "null", status |-> SUCCESS]

\* recommend.py:167-186: the supervisor catches the failure and returns None
SupervisorRunStep(o) ==
    IF o = "ok" THEN [next |-> "ok", status |-> SUCCESS]
                ELSE [next |-> "null", status |-> FAILURE]


\* ------------------------------------------------------------------
\* Initial state: the state after VenueRecommendationOrchestrator()
\* (orchestrator.py:23-28, base_agent.py:14-23)
\* ------------------------------------------------------------------
IdleTask == [pc |-> "idle", result |-> NoResult, llm_raised |-> FALSE,
             llm_calls |-> 0]
NoOrphan == [llm |-> 0, llm2 |-> 0]
IdleRetry == [pc |-> "idle", call |-> 0, attempt |-> 0, log |-> <<>>,
              ret |-> NoResult, after |-> <<>>, read |-> <<>>,
              running |-> 0]
NoOutcome == [shape |-> "none", value |-> NoResult, synth_raised |-> FALSE,
              rankings |-> <<>>]
NotRun == [ran |-> FALSE, venues |-> <<>>, pc |-> "idle"]

InitAgents ==
    /\ agent_status = [a \in Agents |-> PENDING]

InitOrch ==
    /\ pass = 0
    /\ rpc = "idle"
    /\ task = [r \in Roles |-> IdleTask]
    /\ orphan = [r \in Roles |-> NoOrphan]
    /\ recommendations = [r \in Roles |-> NoResult]
    /\ readStatus = [r \in Roles |-> PENDING]
    /\ synthCalls = 0
    /\ synthArgs = [r \in Roles |-> Empty]
    /\ retryInvoked = {}
    /\ runCalls = [r \in Roles |-> 0]
    /\ top_n = DefaultTopN
    /\ outcome = NoOutcome

InitRetry ==
    /\ rt = [r \in Roles |-> IdleRetry]
    /\ retryCallsMade = 0

\* The scoring operation is not known to be deterministic
InitScoring ==
    /\ scoring = [r \in Roles |-> "any"]

\* A faulty variant of SetStatus: the status field is shared by all agents.
SetStatusShared(status, a, v) == [b \in Agents |-> v]

\* base_agent.py:25, 37-39: the setter assigns the instance's own field
SetStatus(status, a, v) == [status EXCEPT ![a] = v]

\* No request has been received
NoAnswer == [shape |-> "none", rankings |-> <<>>]
IdleReq == [pc |-> "idle", served |-> 0, event_id |-> "", top_n |-> DefaultTopN,
            valid |-> TRUE, calls |-> <<>>, retrieved |-> <<>>,
            returned |-> NoAnswer, status |-> 0, detail |-> "", body |-> <<>>]

InitRouter ==
    /\ req = IdleReq

\* No search has been asked for; the event is the one at hand
NoEvent == [attendee_count |-> 0, has_location_requirements |-> FALSE,
            cities |-> <<>>]
IdleSearch == [pc |-> "idle", event |-> NoEvent, filter |-> <<>>,
               search_failed |-> FALSE, documents |-> <<>>]

InitSearch ==
    /\ srch = IdleSearch

InitDocs ==
    /\ docs = <<>>
    /\ venuesGiven = [r \in Roles |-> NotRun]

Init ==
    /\ InitAgents /\ InitOrch /\ InitRetry /\ InitScoring /\ InitDocs
    /\ InitRouter /\ InitSearch

\* ------------------------------------------------------------------
\* recommend (orchestrator.py:30-95)
\* ------------------------------------------------------------------
\* orchestrator.py:31: top_n is any integer the caller passes
TopNs == {1, DefaultTopN}

\* recommend.py:23-38: ranking is an int without a constraint and the list of
\* recommendations has no length constraint, so the parser accepts every list
\* of entries; an entry is represented by its ranking.
Rankings == {0, 1}
ParsedAnswers == UNION {[1..n -> Rankings] : n \in 0..MaxRecs}

\* An opaque call of role r may complete with outcome o
Answers(r, o) == scoring[r] \in {"any", o}

RecFinished == rpc \in {"idle", "returned", "raised"}
InFlight(t) == t.pc \in {"llm", "llm2"}

\* Runs of the previous pass that are still awaiting their opaque call when
\* the next recommend starts keep running on the event loop: asyncio.gather
\* does not cancel the siblings of a run that raised.
Adopt(o, t) ==
    [llm  |-> o.llm  + (IF t.pc = "llm"  THEN 1 ELSE 0),
     llm2 |-> o.llm2 + (IF t.pc = "llm2" THEN 1 ELSE 0)]

\* orchestrator.py:44-49: the caller invokes recommend; gather wraps the four
\* run coroutines in tasks, each of which proceeds to its first chain.ainvoke.
StartRecommend ==
    /\ RecFinished
    /\ pass < MaxPasses
    /\ pass' = pass + 1
    /\ rpc' = "gather"
    /\ orphan' = [r \in Roles |-> Adopt(orphan[r], task[r])]
    /\ task' = [r \in Roles |-> [pc |-> "llm", result |-> NoResult,
                                llm_raised |-> FALSE, llm_calls |-> 1]]
    /\ recommendations' = [r \in Roles |-> NoResult]
    /\ readStatus' = [r \in Roles |-> PENDING]
    /\ synthCalls' = 0
    /\ synthArgs' = [r \in Roles |-> Empty]
    /\ retryInvoked' = {}
    /\ runCalls' = [r \in Roles |-> 1]
    /\ top_n' \in TopNs
    /\ outcome' = NoOutcome
    /\ UNCHANGED <<agent_status, retryVars, docVars,
                   routerVars, searchVars>>

\* An opaque call of a dispatched run completes (returns or raises) and the
\* run continues to its next suspension point or to its end.
TaskStep(r, o) ==
    /\ InFlight(task[r])
    /\ Answers(r, o)
    /\ LET s == RunStep(r, task[r].pc, o, agent_status[r])
       IN /\ agent_status' = SetStatus(agent_status, r, s.status)
          /\ task' = [task EXCEPT ![r] =
                 [pc |-> s.next,
                  result |-> IF s.next = "ok" THEN Result(r, pass, 0)
                                              ELSE NoResult,
                  llm_raised |-> (o = "fail"),
                  llm_calls |-> IF s.next = "llm2" THEN task[r].llm_calls + 1
                                                   ELSE task[r].llm_calls]]
    /\ UNCHANGED <<pass, rpc, orphan, recommendations, readStatus, synthCalls,
                   synthArgs, retryInvoked, runCalls, top_n, outcome, retryVars,
                   docVars, routerVars,
                   searchVars>>

\* The same step for a run left over from an earlier pass: nobody awaits its
\* result, but it still writes the shared agent_status.
OrphanStep(r, o) ==
    /\ Answers(r, o)
    /\ \E stage \in {"llm", "llm2"} :
         /\ orphan[r][stage] > 0
         /\ LET s == RunStep(r, stage, o, agent_status[r])
                less == [orphan[r] EXCEPT ![stage] = @ - 1]
            IN /\ agent_status' = SetStatus(agent_status, r, s.status)
               /\ orphan' = [orphan EXCEPT ![r] =
                      IF s.next = "llm2"
                      THEN [less EXCEPT !.llm2 = @ + 1]
                      ELSE less]
    /\ UNCHANGED <<pass, rpc, task, recommendations, readStatus, synthCalls,
                   synthArgs, retryInvoked, runCalls, top_n, outcome, retryVars,
                   docVars, routerVars,
                   searchVars>>

\* orchestrator.py:44: without return_exceptions the first exception of a
\* child is propagated to the task awaiting gather; recommend has no handler.
GatherRaise ==
    /\ rpc = "gather"
    /\ \E r \in Roles : task[r].pc = "raised"
    /\ rpc' = "raised"
    /\ outcome' = [NoOutcome EXCEPT !.shape = "raised"]
    /\ UNCHANGED <<agent_status, pass, task, orphan, recommendations,
                   readStatus, synthCalls, synthArgs, retryInvoked,
                   runCalls, top_n, retryVars, docVars,
                   routerVars, searchVars>>

\* A faulty variant of Aggregate: the status test of line 63 is lost.
AggregateIgnoringStatus(results, status) ==
    [r \in Roles |-> results[r]]

\* orchestrator.py:62-64
Aggregate(results, status) ==
    [r \in Roles |->
        IF results[r] # NoResult /\ status[r] = SUCCESS
        THEN results[r] ELSE NoResult]

\* A faulty variant of AllFalsy: the total-failure test is lost.
AllFalsyAlways(results) == TRUE

\* orchestrator.py:66
AllFalsy(results) == ~ \E r \in Roles : Truthy(results[r])

\* orchestrator.py:67-71
RetryTasks(results, status) ==
    {r \in Roles : results[r] = NoResult \/ status[r] = FAILURE}

\* orchestrator.py:88-91
Slot(recs, r) == IF recs[r] # NoResult THEN recs[r] ELSE Empty

\* A faulty variant of GatherComplete: the results are taken as soon as one
\* run has returned.
GatherFirstCompleted == \E r \in Roles : task[r].pc = "ok"

\* orchestrator.py:44-49: gather returns when all four runs have returned
GatherComplete == \A r \in Roles : task[r].pc = "ok"

\* orchestrator.py:45-48: the order of the runs given to gather, which is the
\* order of its result list
GatherOrder == <<"amenity", "cost", "location", "capacity">>
GatherResults == [i \in 1..4 |-> task[GatherOrder[i]].result]

\* A faulty variant of AgentResults: two results are unpacked crosswise.
AgentResultsSwapped(res) ==
    [amenity |-> res[1], cost |-> res[3], location |-> res[2],
     capacity |-> res[4]]

\* orchestrator.py:51-60: the result list is unpacked by position and each
\* result is paired with a role name and that role's agent
AgentResults(res) ==
    [amenity |-> res[1], cost |-> res[2], location |-> res[3],
     capacity |-> res[4]]

\* A faulty variant of SupervisorCall: two arguments are passed crosswise.
SupervisorCallSwapped(recs) ==
    <<Slot(recs, "amenity"), Slot(recs, "capacity"),
      Slot(recs, "location"), Slot(recs, "cost")>>

\* orchestrator.py:86-94: the positional arguments after event
SupervisorCall(recs) ==
    <<Slot(recs, "capacity"), Slot(recs, "amenity"),
      Slot(recs, "location"), Slot(recs, "cost")>>

\* recommend.py:151-160, 169-179: the parameters those arguments bind to,
\* and the prompt variable each parameter fills
SupervisorParams(args) ==
    [capacity |-> args[1], amenity |-> args[2], location |-> args[3],
     cost |-> args[4]]

\* orchestrator.py:50-94: gather returned the four results; aggregate, test
\* the total-failure guard, and either dispatch the retries or call the
\* supervisor, whose run proceeds to its chain.ainvoke.
GatherReturn ==
    /\ rpc = "gather"
    /\ GatherComplete
    /\ LET results == AgentResults(GatherResults)
           recs == Aggregate(results, agent_status)
           retry_tasks == RetryTasks(results, agent_status)
       IN /\ readStatus' = [r \in Roles |-> agent_status[r]]
          /\ recommendations' = recs
          /\ IF AllFalsy(results) /\ retry_tasks # {}
             THEN /\ rpc' = "retrying"
                  /\ retryInvoked' = retry_tasks
                  /\ UNCHANGED <<synthCalls, synthArgs>>
             ELSE /\ rpc' = "synth"
                  /\ synthCalls' = synthCalls + 1
                  /\ synthArgs' = SupervisorParams(SupervisorCall(recs))
                  /\ UNCHANGED retryInvoked
    /\ UNCHANGED <<agent_status, pass, task, orphan, runCalls, top_n, outcome,
                   retryVars, docVars,
                   routerVars, searchVars>>

\* A faulty variant of AfterSupervisor: a None from the supervisor sends
\* recommend back to the synthesis step.
AfterSupervisorRetryOnNone(s) ==
    IF s.next = "null" THEN "gather" ELSE "returned"

\* orchestrator.py:95: whatever the supervisor returned, recommend returns it
AfterSupervisor(s) == "returned"

\* recommend.py:167-186 and orchestrator.py:95: the supervisor's opaque call
\* completes and recommend returns what the supervisor returned.
SynthStep(o) ==
    /\ rpc = "synth"
    /\ LET s == SupervisorRunStep(o)
       IN /\ agent_status' = SetStatus(agent_status, "supervisor", s.status)
          /\ \E parsed \in ParsedAnswers :
               outcome' = IF s.next = "ok"
                          THEN [shape |-> "recset",
                                value |-> Result("supervisor", pass, 0),
                                synth_raised |-> FALSE,
                                rankings |-> parsed]
                          ELSE [NoOutcome EXCEPT !.shape = "null",
                                                 !.synth_raised = (o = "fail")]
    /\ rpc' = AfterSupervisor(SupervisorRunStep(o))
    /\ UNCHANGED <<pass, task, orphan, recommendations, readStatus, synthCalls,
                   synthArgs, retryInvoked, runCalls, top_n, retryVars,
                   docVars, routerVars,
                   searchVars>>

Next ==
    \/ StartRecommend
    \/ \E r \in Roles, o \in LLMOutcomes : TaskStep(r, o)
    \/ \E r \in Roles, o \in LLMOutcomes : OrphanStep(r, o)
    \/ GatherRaise
    \/ GatherReturn
    \/ \E o \in LLMOutcomes : SynthStep(o)

Spec == Init /\ [][Next]_vars

\* orchestrator.py:23-28, 44-49: a second caller invokes recommend on the
\* same orchestrator while an earlier call awaits its gather. Both calls use
\* the same four role instances. The call followed in detail is the later
\* one; the earlier call's runs go on in the pool of runs nobody here awaits,
\* where they still write the shared agent_status.
StartConcurrentRecommend ==
    /\ rpc = "gather"
    /\ pass < MaxPasses
    /\ pass' = pass + 1
    /\ orphan' = [r \in Roles |-> Adopt(orphan[r], task[r])]
    /\ task' = [r \in Roles |-> [pc |-> "llm", result |-> NoResult,
                                llm_raised |-> FALSE, llm_calls |-> 1]]
    /\ top_n' \in TopNs
    /\ UNCHANGED <<agent_status, rpc, recommendations, readStatus, synthCalls,
                   synthArgs, retryInvoked, runCalls, outcome, retryVars,
                   docVars, routerVars,
                   searchVars>>

NextConcurrent ==
    \/ Next
    \/ StartConcurrentRecommend

SpecConcurrent == Init /\ [][NextConcurrent]_vars


\* ------------------------------------------------------------------
\* _retry_agent (orchestrator.py:97-134), exercised on its own: the
\* orchestrator's retry sequences for different roles run concurrently
\* (orchestrator.py:74-79), each sequence awaiting run inline.
\*   rt[r].attempt : run calls started by the invocation
\*   rt[r].log     : how each finished run call ended ("ok" / "fail")
\*   rt[r].ret     : the value the invocation returned
\* ------------------------------------------------------------------
\* A faulty variant of RetrySucceeded: the early return is lost.
RetrySucceededNever(res, st) == FALSE

\* orchestrator.py:125
RetrySucceeded(res, st) == res # NoResult /\ st = SUCCESS

\* A faulty variant of AfterFailedAttempt: the exception of an attempt is
\* not caught and leaves _retry_agent.
AfterFailedAttemptAborts(attempt) == "raised"

\* orchestrator.py:118, 130-134: the exception of an attempt is caught and
\* logged; the loop goes on to the next attempt, or ends and returns None
AfterFailedAttempt(attempt) ==
    IF attempt < MaxRetries THEN "llm" ELSE "returned"

\* A faulty variant of AwaitedRun: the attempt's run is scheduled and the
\* loop goes on without awaiting it.
RunNotAwaited(n) == n

\* orchestrator.py:122: run is awaited inline, so when the loop goes on the
\* attempt's run has ended; n counts the role's runs in progress
AwaitedRun(n) == n - 1

\* orchestrator.py:118-123: _retry_agent is entered and the first attempt's
\* run proceeds to its chain.ainvoke.
RetryAgentCall(r) ==
    /\ rt[r].pc \in {"idle", "returned"}
    /\ retryCallsMade < MaxRetryCalls
    /\ retryCallsMade' = retryCallsMade + 1
    /\ UNCHANGED scoring
    /\ rt' = [rt EXCEPT ![r] =
          IF MaxRetries > 0
          THEN [@ EXCEPT !.pc = "llm", !.call = retryCallsMade + 1,
                         !.attempt = 1, !.log = <<>>, !.ret = NoResult,
                         !.running = @ + 1]
          ELSE [@ EXCEPT !.pc = "returned", !.call = retryCallsMade + 1,
                         !.attempt = 0, !.log = <<>>, !.ret = NoResult]]
    /\ UNCHANGED <<agent_status, orchVars, docVars, routerVars,
                   searchVars>>

\* orchestrator.py:118-134: an opaque call of the attempt in progress
\* completes; run returns or raises into the loop, which returns the result,
\* starts the next attempt, or gives up with None.
RetryStep(r, o) ==
    /\ rt[r].pc \in {"llm", "llm2"}
    /\ Answers(r, o)
    /\ LET s == RunStep(r, rt[r].pc, o, agent_status[r])
           res == IF s.next = "ok" THEN Result(r, rt[r].call, rt[r].attempt)
                                   ELSE NoResult
           how == IF s.next = "ok" THEN "ok" ELSE "fail"
           \* the run has ended: its status stands, and line 125 reads it
           \* if the run returned
           seen == [rt[r] EXCEPT !.after = Append(@, s.status),
                                 !.log = Append(@, how),
                                 !.running = AwaitedRun(@),
                                 !.read = IF s.next = "ok"
                                          THEN Append(@, s.status) ELSE @]
       IN /\ agent_status' = SetStatus(agent_status, r, s.status)
          /\ rt' = [rt EXCEPT ![r] =
               CASE s.next = "llm2" -> [@ EXCEPT !.pc = "llm2"]
                 [] s.next = "ok" /\ RetrySucceeded(res, s.status) ->
                      [seen EXCEPT !.pc = "returned", !.ret = res]
                 [] OTHER ->
                      LET to == AfterFailedAttempt(rt[r].attempt)
                      IN [seen EXCEPT !.pc = to, !.ret = NoResult,
                                      !.attempt = IF to = "llm" THEN @ + 1
                                                                ELSE @,
                                      !.running = IF to = "llm" THEN @ + 1
                                                                ELSE @]]
    /\ UNCHANGED <<retryCallsMade, scoring, orchVars, docVars, routerVars,
                   searchVars>>

\* _retry_agent is called with a role whose scoring operation may be
\* deterministic for the inputs at hand.
InitRetrySpec ==
    /\ InitAgents /\ InitOrch /\ InitRetry /\ InitDocs /\ InitRouter
    /\ InitSearch
    /\ scoring \in [Roles -> {"ok", "fail", "any"}]

NextRetry ==
    \/ \E r \in Roles : RetryAgentCall(r)
    \/ \E r \in Roles, o \in LLMOutcomes : RetryStep(r, o)

SpecRetry == InitRetrySpec /\ [][NextRetry]_vars


\* ------------------------------------------------------------------
\* The venue list each role's run builds from retrieved_documents before it
\* calls its _analyze_* method.
\* A document is reduced to metadata.get("venue"): NoneVenue when the key is
\* missing, else a venue record; venue_id "" stands for a missing or empty
\* venue_id, content for everything else the record holds.
\* ------------------------------------------------------------------
VenueIds == {"V1", "V2"}
VenueContents == {"a", "b"}
NoneVenue == [venue_id |-> "", content |-> "None"]
Venues == [venue_id : VenueIds \cup {""}, content : VenueContents]
Documents == [venue : Venues \cup {NoneVenue}]

RECURSIVE SeqsUpTo(_, _)
SeqsUpTo(S, n) ==
    IF n = 0 THEN {<<>>}
    ELSE LET shorter == SeqsUpTo(S, n - 1)
         IN shorter \cup {Append(q, x) : q \in {t \in shorter : Len(t) = n - 1}, x \in S}

DocLists == SeqsUpTo(Documents, MaxDocs)

\* A faulty variant of DictPut: the records are collected in a list, as
\* cost.py does, so a repeated key adds another entry.
DictPutAlwaysAppends(d, v) == Append(d, v)

\* A faulty variant of DictPut: the first value written for a key is kept.
DictPutKeepFirst(d, v) ==
    IF \E i \in 1..Len(d) : d[i].venue_id = v.venue_id
    THEN d
    ELSE Append(d, v)

\* d[venue["venue_id"]] = venue on an insertion-ordered dict, kept as the
\* sequence of its values: a new key is appended, an existing key keeps its
\* position and takes the new value.
DictPut(d, v) ==
    IF \E i \in 1..Len(d) : d[i].venue_id = v.venue_id
    THEN [i \in 1..Len(d) |-> IF d[i].venue_id = v.venue_id THEN v ELSE d[i]]
    ELSE Append(d, v)

\* {venue["venue_id"]: venue for doc in retrieved_documents
\*      if (venue := doc.metadata.get("venue")) is not None
\*      and venue.get("venue_id")}.values()
RECURSIVE DictComprehension(_, _)
DictComprehension(ds, d) ==
    IF ds = <<>> THEN d
    ELSE LET venue == Head(ds).venue
         IN DictComprehension(Tail(ds),
                IF venue # NoneVenue /\ venue.venue_id # ""
                THEN DictPut(d, venue) ELSE d)

\* capacity.py:237-243
CapacityVenues(ds) == DictComprehension(ds, <<>>)
\* amenity.py:222-228
AmenityVenues(ds) == DictComprehension(ds, <<>>)
\* location.py:249-255
LocationVenues(ds) == DictComprehension(ds, <<>>)

\* cost.py:223-227: one entry per document whose venue is not None
RECURSIVE CostVenues(_)
CostVenues(ds) ==
    IF ds = <<>> THEN <<>>
    ELSE IF Head(ds).venue # NoneVenue
         THEN <<Head(ds).venue>> \o CostVenues(Tail(ds))
         ELSE CostVenues(Tail(ds))

VenuesFor(r, ds) ==
    CASE r = "capacity" -> CapacityVenues(ds)
      [] r = "amenity"  -> AmenityVenues(ds)
      [] r = "location" -> LocationVenues(ds)
      [] r = "cost"     -> CostVenues(ds)

\* The caller supplies the retrieved documents.
InitVenues ==
    /\ InitAgents /\ InitOrch /\ InitRetry /\ InitScoring /\ InitRouter
    /\ InitSearch
    /\ docs \in DocLists
    /\ venuesGiven = [r \in Roles |-> NotRun]

\* The first part of run(event, retrieved_documents) of role r, up to the
\* call of its _analyze_* method with the venue list.
RunVenues(r) ==
    /\ ~ venuesGiven[r].ran
    /\ venuesGiven' = [venuesGiven EXCEPT ![r] =
                          [ran |-> TRUE, venues |-> VenuesFor(r, docs),
                           pc |-> "llm"]]
    /\ UNCHANGED <<agent_status, orchVars, retryVars, docs, routerVars,
                   searchVars>>

\* The rest of that run: an opaque call completes and the run goes on to
\* its next call or ends, assigning its status.
RunVenuesStep(r, o) ==
    /\ venuesGiven[r].pc \in {"llm", "llm2"}
    /\ LET s == RunStep(r, venuesGiven[r].pc, o, agent_status[r])
       IN /\ agent_status' = SetStatus(agent_status, r, s.status)
          /\ venuesGiven' = [venuesGiven EXCEPT ![r].pc = s.next]
    /\ UNCHANGED <<orchVars, retryVars, docs, routerVars,
                   searchVars>>

NextVenues ==
    \/ \E r \in Roles : RunVenues(r)
    \/ \E r \in Roles, o \in LLMOutcomes : RunVenuesStep(r, o)

SpecVenues == InitVenues /\ [][NextVenues]_vars

\* ------------------------------------------------------------------
\* The recommend endpoint, POST /api/v1/venues/recommend, as its tests
\* describe it (tests/unit/fastapi_app/test_file_router.py:97-200): the
\* request body is validated, the event is looked up in the
\* current-requests database, the retrieval step is awaited, then
\* recommend is awaited and its result is the response.
\* ------------------------------------------------------------------
CurrentRequestsDb == {"EVT-2026-001", "EVT-2026-002"}
EventIds == CurrentRequestsDb \cup {"EVT-NONEXISTENT"}
NotInDbDetail == "Event not in current requests database"
ValidationDetail == "Request validation error(s)"

\* What the awaited recommend call can give the endpoint
OrchestratorAnswers ==
    {[shape |-> "recset", rankings |-> p] : p \in ParsedAnswers}
    \cup {[shape |-> "null", rankings |-> <<>>],
          [shape |-> "raised", rankings |-> <<>>]}

\* A faulty variant of EventKnown: the lookup is skipped.
EventKnownAlways(e) == TRUE

\* the lookup in the current-requests database
EventKnown(e) == e \in CurrentRequestsDb

Min(a, b) == IF a <= b THEN a ELSE b

\* A faulty variant of Respond: the endpoint cuts the list to top_n.
RespondTruncated(answer, n) ==
    IF answer.shape = "recset"
    THEN [status |-> Ok,
          body |-> SubSeq(answer.rankings, 1, Min(n, Len(answer.rankings)))]
    ELSE [status |-> InternalServerError, body |-> <<>>]

\* the response built from what recommend gave: a recommendation set is
\* sent as it is; an exception or None leaves no valid response body
Respond(answer, n) ==
    IF answer.shape = "recset"
    THEN [status |-> Ok, body |-> answer.rankings]
    ELSE [status |-> InternalServerError, body |-> <<>>]

\* A request arrives; wellFormed tells whether its body parses as a
\* VenueRecommendationRequest. The handler runs to its first await.
PostRecommend(e, n, wellFormed) ==
    /\ req.pc \in {"idle", "responded"}
    /\ req.served < MaxRequests
    /\ LET new == [IdleReq EXCEPT !.served = req.served + 1, !.event_id = e,
                                  !.top_n = n, !.valid = wellFormed]
       IN req' =
            IF ~ wellFormed
            THEN [new EXCEPT !.pc = "responded",
                             !.status = UnprocessableEntity,
                             !.detail = ValidationDetail]
            ELSE IF ~ EventKnown(e)
            THEN [new EXCEPT !.pc = "responded",
                             !.status = UnprocessableEntity,
                             !.detail = NotInDbDetail]
            ELSE [new EXCEPT !.pc = "search",
                             !.calls = <<"search_documents">>]
    /\ UNCHANGED <<agent_status, orchVars, retryVars, docVars, searchVars>>

\* search_documents returns and the handler awaits recommend
SearchDone(ds) ==
    /\ req.pc = "search"
    /\ req' = [req EXCEPT !.pc = "recommend", !.retrieved = ds,
                          !.calls = Append(@, "recommend")]
    /\ UNCHANGED <<agent_status, orchVars, retryVars, docVars, searchVars>>

\* recommend ends and the response is sent
RecommendDone(answer) ==
    /\ req.pc = "recommend"
    /\ LET resp == Respond(answer, req.top_n)
       IN req' = [req EXCEPT !.pc = "responded", !.returned = answer,
                             !.status = resp.status, !.body = resp.body]
    /\ UNCHANGED <<agent_status, orchVars, retryVars, docVars, searchVars>>

NextRouter ==
    \/ \E e \in EventIds, n \in TopNs, wellFormed \in BOOLEAN :
          PostRecommend(e, n, wellFormed)
    \/ \E ds \in DocLists : SearchDone(ds)
    \/ \E answer \in OrchestratorAnswers : RecommendDone(answer)

SpecRouter == Init /\ [][NextRouter]_vars

\* ------------------------------------------------------------------
\* OpenSearchEngine.search_documents (engine/vector_store.py:153-264)
\* ------------------------------------------------------------------
\* An event as far as the filter reads it: attendee_count (0 stands for an
\* absent or zero count), and the cities of location_requirements, each a
\* name with an optional ", state" part.
AttendeeCounts == {0, 40, 300}
Cities == {[name |-> "Boston", state |-> ""],
           [name |-> "Austin", state |-> "TX"]}
SearchEvents ==
    [attendee_count : AttendeeCounts, has_location_requirements : {TRUE},
     cities : SeqsUpTo(Cities, MaxCities)]
    \cup [attendee_count : AttendeeCounts,
          has_location_requirements : {FALSE}, cities : {<<>>}]

Max(a, b) == IF a >= b THEN a ELSE b

\* vector_store.py:156-172: tolerance = max(int(attendee_count * 0.2), 50)
RangeClause(n) ==
    LET tolerance == Max((n * 2) \div 10, 50)
    IN [kind |-> "range", gte |-> Max(0, n - tolerance), lte |-> n + tolerance,
        prefixes |-> <<>>]

\* vector_store.py:175-192: city.split(",")[0].strip() of every city
CitiesClause(cities) ==
    [kind |-> "cities", gte |-> 0, lte |-> 0,
     prefixes |-> [i \in 1..Len(cities) |-> cities[i].name]]

\* vector_store.py:153-196: filter_clause is assigned only when a clause was
\* collected; with none, return filter_clause reads an unbound local
BuildFilterClause(event) ==
    LET filter_clauses ==
          (IF event.attendee_count # 0
           THEN <<RangeClause(event.attendee_count)>> ELSE <<>>)
          \o (IF event.cities # <<>>
              THEN <<CitiesClause(event.cities)>> ELSE <<>>)
    IN IF filter_clauses # <<>>
       THEN [raised |-> FALSE, filter |-> filter_clauses]
       ELSE [raised |-> TRUE, filter |-> <<>>]

\* vector_store.py:257-262, 198-206: search_documents builds the query and
\* calls __search_documents, which builds the filter before its try and then
\* awaits the similarity search.
SearchDocuments ==
    /\ srch.pc = "idle"
    /\ LET built == BuildFilterClause(srch.event)
       IN srch' = IF built.raised
                  THEN [srch EXCEPT !.pc = "raised"]
                  ELSE [srch EXCEPT !.pc = "searching",
                                    !.filter = built.filter]
    /\ UNCHANGED <<agent_status, orchVars, retryVars, docVars, routerVars>>

\* vector_store.py:206-217, 264: the similarity search returns documents, or
\* fails and the empty list is returned in its place.
SimilaritySearchDone(o, ds) ==
    /\ srch.pc = "searching"
    /\ srch' = [srch EXCEPT !.pc = "returned",
                            !.search_failed = (o = "fail"),
                            !.documents = IF o = "ok" THEN ds ELSE <<>>]
    /\ UNCHANGED <<agent_status, orchVars, retryVars, docVars, routerVars>>

InitSearchSpec ==
    /\ InitAgents /\ InitOrch /\ InitRetry /\ InitScoring /\ InitDocs
    /\ InitRouter
    /\ srch \in {[IdleSearch EXCEPT !.event = e] : e \in SearchEvents}

NextSearch ==
    \/ SearchDocuments
    \/ \E o \in LLMOutcomes, ds \in DocLists : SimilaritySearchDone(o, ds)

SpecSearch == InitSearchSpec /\ [][NextSearch]_vars




\* ------------------------------------------------------------------
\* Properties
\* ------------------------------------------------------------------
\* How the run dispatched for role r by the current pass ended
Succeeded(r) == task[r].pc = "ok"
Failed(r) == task[r].pc = "raised"
RecDone == rpc \in {"returned", "raised"}
SynthInvoked == rpc \in {"synth", "returned"}

\* C1: recommend always completes by returning a value; no exception raised
\* inside a role's run, _retry_agent or the supervisor's run escapes it.
C1_NoExceptionEscapes == rpc # "raised" /\ outcome.shape # "raised"

\* C2: when exactly one role fails in the initial pass and the other three
\* succeed, recommend calls no retry, calls the supervisor exactly once and
\* passes "" in the failed role's slot and the three results in the others.
C2_SingleFailureSynthesizes ==
    (/\ RecDone
     /\ \E f \in Roles : Failed(f) /\ \A r \in Roles \ {f} : Succeeded(r))
    => /\ retryInvoked = {}
       /\ synthCalls = 1
       /\ \A r \in Roles :
             synthArgs[r] = IF Failed(r) THEN Empty ELSE task[r].result

\* C3: when all four roles succeed in the initial pass, recommend calls the
\* supervisor exactly once with every slot holding that role's non-null
\* result, and calls no retry.
C3_AllSucceedSynthesizes ==
    (/\ \A r \in Roles : Succeeded(r)
     /\ rpc # "gather")
    => /\ SynthInvoked
       /\ synthCalls = 1
       /\ retryInvoked = {}
       /\ \A r \in Roles : /\ synthArgs[r] = task[r].result
                           /\ synthArgs[r] # NoResult
                           /\ synthArgs[r] # Empty

\* The total-failure branch of recommend (orchestrator.py:67-83) is never
\* entered: a run that fails raises, so gather never returns four None
\* results. Its continuation after line 79 therefore has no action in Next.
NeverRetrying == rpc # "retrying" /\ retryInvoked = {}

\* C4: when all four roles fail in the initial pass, recommend calls
\* _retry_agent for all four, then returns the per-role mapping and never
\* calls the supervisor.
C4_TotalFailureRetriesAll ==
    (RecDone /\ \A r \in Roles : Failed(r))
    => /\ retryInvoked = Roles
       /\ \A r \in Roles : rt[r].attempt <= MaxRetries
       /\ outcome.shape = "mapping"
       /\ synthCalls = 0

\* C5: in the total-failure branch the returned mapping holds, for every role
\* whose retry sequence ended in a successful attempt, that retry result, and
\* no entry for a role whose retries all failed.
C5_MappingHoldsRetryResults ==
    (RecDone /\ \A r \in Roles : Failed(r))
    => /\ rpc = "returned"
       /\ \A r \in Roles : recommendations[r] = rt[r].ret

\* C6: a retry sequence stops at its first successful attempt: if run first
\* succeeds on attempt k, _retry_agent has made exactly k calls of run and
\* returns the result of attempt k.
FirstOk(log) == CHOOSE k \in 1..Len(log) :
                   log[k] = "ok" /\ \A j \in 1..(k - 1) : log[j] # "ok"
HasOk(log) == \E k \in 1..Len(log) : log[k] = "ok"
C6_RetryStopsAtFirstSuccess ==
    \A r \in Roles :
        HasOk(rt[r].log)
        => /\ rt[r].pc = "returned"
           /\ rt[r].attempt = FirstOk(rt[r].log)
           /\ Len(rt[r].log) = FirstOk(rt[r].log)
           /\ rt[r].ret = Result(r, rt[r].call, FirstOk(rt[r].log))

\* C6 witness: a role failed on attempt 1, succeeded on attempt 2, and the
\* invocation returned after exactly 2 calls.
C6_Witness ==
    \E r \in Roles : /\ rt[r].pc = "returned"
                     /\ rt[r].log = <<"fail", "ok">>
                     /\ rt[r].attempt = 2

\* C7: when the opaque scoring call raises, run raises nothing to its caller:
\* it returns None and the role's status is FAILURE.
C7_RunCatchesScoringErrors ==
    \A r \in Roles :
        (task[r].llm_raised /\ ~ InFlight(task[r]))
        => /\ task[r].pc = "ok"
           /\ task[r].result = NoResult
           /\ agent_status[r] = FAILURE

\* C8: once a role's run has finished, the role's status is SUCCESS or
\* FAILURE, never PENDING.
C8_NeverPendingAfterRun ==
    \A r \in Roles :
        task[r].pc \in {"ok", "raised"} => agent_status[r] # PENDING

\* C9: where recommend reads a role's (result, status) pair, SUCCESS implies
\* a non-null result; a result enters the mapping or a supervisor slot only
\* if the status read is SUCCESS, and every other slot receives "".
C9_OnlySuccessForwarded ==
    SynthInvoked =>
      \A r \in Roles :
        /\ readStatus[r] = SUCCESS => task[r].result # NoResult
        /\ recommendations[r] # NoResult
             => readStatus[r] = SUCCESS /\ recommendations[r] = task[r].result
        /\ synthArgs[r] = IF readStatus[r] = SUCCESS
                          THEN task[r].result ELSE Empty

\* C9 witness: the supervisor was called with one role's result forwarded and
\* another role's slot empty because its status, as read, was not SUCCESS.
C9_Witness ==
    /\ SynthInvoked
    /\ \E r \in Roles : /\ readStatus[r] # SUCCESS
                        /\ task[r].result # NoResult
                        /\ synthArgs[r] = Empty
    /\ \E r \in Roles : /\ readStatus[r] = SUCCESS
                        /\ synthArgs[r] = task[r].result

\* Documents that reference venue_id v, in retrieval order
DocsWith(v) ==
    {i \in 1..Len(docs) : docs[i].venue # NoneVenue /\ docs[i].venue.venue_id = v}
ReferencedIds == {v \in VenueIds : DocsWith(v) # {}}
FirstDocWith(v) == CHOOSE i \in DocsWith(v) : \A j \in DocsWith(v) : i <= j
LastDocWith(v) == CHOOSE i \in DocsWith(v) : \A j \in DocsWith(v) : i >= j
DocsWithVenue == {i \in 1..Len(docs) : docs[i].venue # NoneVenue}
RecordsOf(r, v) ==
    {i \in 1..Len(venuesGiven[r].venues) : venuesGiven[r].venues[i].venue_id = v}
DedupRoles == {"capacity", "amenity", "location"}
CostGetsOnePerDocument ==
    venuesGiven["cost"].ran
    => /\ Len(venuesGiven["cost"].venues) = Cardinality(DocsWithVenue)
       /\ \A i \in 1..Len(venuesGiven["cost"].venues) :
             \E j \in DocsWithVenue :
                /\ Cardinality({k \in DocsWithVenue : k <= j}) = i
                /\ venuesGiven["cost"].venues[i] = docs[j].venue

\* C10 as stated: capacity, amenity and location each receive exactly one
\* record per venue_id, the one of the first document referencing it; cost
\* receives one record per document that has a venue.
C10_FirstOccurrenceKept ==
    /\ \A r \in DedupRoles : venuesGiven[r].ran =>
          \A v \in ReferencedIds :
             /\ Cardinality(RecordsOf(r, v)) = 1
             /\ \A i \in RecordsOf(r, v) :
                   venuesGiven[r].venues[i] = docs[FirstDocWith(v)].venue
    /\ CostGetsOnePerDocument

\* C10 amended: capacity, amenity and location each receive exactly one
\* record per venue_id, the one of the last document referencing it; cost
\* receives one record per document that has a venue.
C10_LastOccurrenceKept ==
    /\ \A r \in DedupRoles : venuesGiven[r].ran =>
          \A v \in ReferencedIds :
             /\ Cardinality(RecordsOf(r, v)) = 1
             /\ \A i \in RecordsOf(r, v) :
                   venuesGiven[r].venues[i] = docs[LastDocWith(v)].venue
    /\ CostGetsOnePerDocument

\* C10 witness: two documents reference the same venue_id with differing
\* content and all four roles have built their venue lists.
C10_Witness ==
    /\ \A r \in Roles : venuesGiven[r].ran
    /\ \E v \in VenueIds : \E i, j \in DocsWith(v) : docs[i].venue # docs[j].venue
    /\ \E v \in VenueIds : Cardinality(RecordsOf("cost", v)) = 2
                           /\ Cardinality(RecordsOf("capacity", v)) = 1

\* C11: fan-in barrier: when recommend completes (returns or raises), all
\* four dispatched runs have completed; no sibling is still in progress.
C11_BarrierBeforeCompletion ==
    RecDone => \A r \in Roles : ~ InFlight(task[r])

\* Every opaque call eventually completes and the event loop resumes every
\* runnable coroutine.
FairSpec ==
    /\ Spec
    /\ \A r \in Roles : WF_vars(\E o \in LLMOutcomes : TaskStep(r, o))
    /\ WF_vars(GatherRaise)
    /\ WF_vars(GatherReturn)
    /\ WF_vars(\E o \in LLMOutcomes : SynthStep(o))

\* Every recommend call that has started eventually completes.
RecommendTerminates == (rpc = "gather") ~> RecDone

\* C12: recommend terminates, and its outcome is one of three shapes: a
\* RecommendationSet, a partial per-role mapping, or null.
C12_ThreeOutcomeShapes ==
    RecDone => outcome.shape \in {"recset", "mapping", "null"}

\* C13: in one execution of recommend each role's run is invoked at most
\* 1 + max_retries times (one dispatch and the retry attempts) and the
\* supervisor's run at most once.
C13_BoundedCalls ==
    /\ \A r \in Roles :
          runCalls[r] + (IF r \in retryInvoked THEN rt[r].attempt ELSE 0)
             <= 1 + MaxRetries
    /\ synthCalls <= 1

\* C13 witness: a recommend call has returned after one run of every role
\* and one run of the supervisor.
C13_Witness ==
    /\ rpc = "returned"
    /\ \A r \in Roles : runCalls[r] = 1
    /\ synthCalls = 1

\* C14: when all four roles fail initially and every retry attempt fails
\* too, recommend returns an empty per-role mapping and raises nothing.
C14_ExhaustedRetriesReturnEmptyMapping ==
    (RecDone /\ \A r \in Roles : Failed(r) /\ ~ HasOk(rt[r].log))
    => /\ outcome.shape = "mapping"
       /\ \A r \in Roles : recommendations[r] = NoResult

\* C15: a synthesis failure is not retried: when the supervisor's opaque call
\* raises, its run returns None with status FAILURE, recommend returns that
\* None, and the supervisor is not invoked a second time in that call.
C15_SynthesisFailureNotRetried ==
    outcome.synth_raised
    => /\ rpc = "returned"
       /\ outcome.shape = "null"
       /\ outcome.value = NoResult
       /\ agent_status["supervisor"] = FAILURE
       /\ synthCalls = 1

\* C15 witness: recommend returned None after the supervisor's call raised.
C15_Witness ==
    /\ rpc = "returned"
    /\ outcome.synth_raised
    /\ outcome.shape = "null"
    /\ synthCalls = 1

\* C16: with a deterministic scoring operation, successive runs of the same
\* role instance on the same inputs leave the same status each time, and the
\* orchestrator never reads PENDING from a role whose run has resolved.
C16_StatusIdempotent ==
    \A r \in Roles :
       /\ scoring[r] # "any"
            => \A i, j \in 1..Len(rt[r].after) : rt[r].after[i] = rt[r].after[j]
       /\ \A i \in 1..Len(rt[r].read) : rt[r].read[i] # PENDING

\* C16 witness: a role with a deterministic scoring operation has run twice
\* in sequence and its status was read after each run.
C16_Witness ==
    \E r \in Roles : /\ scoring[r] = "ok"
                     /\ Len(rt[r].after) = 2
                     /\ rt[r].read = <<SUCCESS, SUCCESS>>

\* The status recommend reads at line 63 is never PENDING either.
ReadNeverPending ==
    SynthInvoked => \A r \in Roles : readStatus[r] # PENDING

\* C17: a RecommendationSet returned by recommend has at most top_n entries
\* and every entry's ranking is a positive integer.
C17_AtMostTopNPositiveRankings ==
    (rpc = "returned" /\ outcome.shape = "recset")
    => /\ Len(outcome.rankings) <= top_n
       /\ \A i \in 1..Len(outcome.rankings) : outcome.rankings[i] > 0

Responded == req.pc = "responded"

\* C18: a request for an event id present in the current-requests database
\* calls search_documents exactly once and then recommend exactly once, and
\* the recommendations recommend returned are the body of a 200 response, in
\* the same order and with the same content.
C18_KnownEventServedOnce ==
    (Responded /\ req.valid /\ req.event_id \in CurrentRequestsDb)
    => /\ req.calls = <<"search_documents", "recommend">>
       /\ req.returned.shape = "recset"
            => /\ req.status = Ok
               /\ req.body = req.returned.rankings

\* C18 witness: a known event was served with two recommendations although
\* the request asked for one.
C18_Witness ==
    /\ Responded /\ req.valid
    /\ req.event_id = "EVT-2026-001"
    /\ req.top_n = 1
    /\ req.returned = [shape |-> "recset", rankings |-> <<1, 0>>]
    /\ req.status = Ok
    /\ req.body = <<1, 0>>

\* C19: a request whose event id is not in the current-requests database is
\* answered 422 with the detail that the event is not in the current requests
\* database; nothing is retrieved and nothing is recommended.
C19_UnknownEventRejected ==
    (Responded /\ req.valid /\ req.event_id \notin CurrentRequestsDb)
    => /\ req.status = UnprocessableEntity
       /\ req.detail = NotInDbDetail
       /\ req.calls = <<>>
       /\ req.body = <<>>

\* C19 witness: a well-formed request for an unknown event was rejected.
C19_Witness ==
    /\ Responded /\ req.valid
    /\ req.event_id = "EVT-NONEXISTENT"
    /\ req.status = UnprocessableEntity
    /\ req.detail = NotInDbDetail

\* The results the current gather returned
InitialResults == [r \in Roles |-> task[r].result]
PastGather == rpc \in {"synth", "retrying", "returned"}

\* C20: _retry_agent is called if and only if all four initial results are
\* null: when at least one is non-null it is called for no role, and when
\* all are null it is called for exactly the roles whose result is null or
\* whose status is FAILURE.
C20_RetryIffAllNull ==
    PastGather
    => /\ (\E r \in Roles : InitialResults[r] # NoResult) => retryInvoked = {}
       /\ (\A r \in Roles : InitialResults[r] = NoResult)
            => retryInvoked = RetryTasks(InitialResults, readStatus)

\* C20 witness: gather returned non-null results while a role's status read
\* FAILURE, and recommend went on to the supervisor without any retry.
C20_Witness ==
    /\ rpc = "returned"
    /\ synthCalls = 1
    /\ \E r \in Roles : InitialResults[r] # NoResult /\ readStatus[r] = FAILURE
    /\ retryInvoked = {}

\* A _retry_agent invocation for role r has ended
RetryEnded(r) == rt[r].call > 0 /\ rt[r].pc \in {"returned", "raised"}
AllRaised(log) == \A k \in 1..Len(log) : log[k] = "fail"

\* C21: an exception raised by an attempt's run is caught and counts as one
\* failed attempt: _retry_agent never raises; when every attempt raised, run
\* was called exactly max_retries times and None is returned; when attempt j
\* raised and attempt j+1 succeeded, the result of attempt j+1 is returned.
C21_AttemptExceptionsCaught ==
    \A r \in Roles :
       /\ rt[r].pc # "raised"
       /\ (RetryEnded(r) /\ AllRaised(rt[r].log))
            => /\ Len(rt[r].log) = MaxRetries
               /\ rt[r].ret = NoResult
       /\ RetryEnded(r)
            => \A j \in 1..(Len(rt[r].log) - 1) :
                  (rt[r].log[j] = "fail" /\ rt[r].log[j + 1] = "ok")
                  => rt[r].ret = Result(r, rt[r].call, j + 1)

\* C21 witness: one role's attempts all raised, and another role's second
\* attempt succeeded after its first raised.
C21_Witness ==
    \E r, q \in Roles :
       /\ RetryEnded(r) /\ rt[r].log = <<"fail", "fail", "fail">>
       /\ rt[r].ret = NoResult
       /\ RetryEnded(q) /\ rt[q].log = <<"fail", "ok">>
       /\ rt[q].ret = Result(q, rt[q].call, 2)

\* C22: when all max_retries attempts for a role fail, _retry_agent returns
\* None and the role's status afterwards is FAILURE.
C22_ExhaustedRoleIsFailure ==
    \A r \in Roles :
       (RetryEnded(r) /\ AllRaised(rt[r].log) /\ Len(rt[r].log) = MaxRetries)
       => /\ rt[r].ret = NoResult
          /\ agent_status[r] = FAILURE

C25_SynthesisAfterBarrier ==
    SynthInvoked
    => /\ \A r \in Roles : ~ InFlight(task[r]) /\ task[r].pc # "idle"
       /\ \E r \in Roles : recommendations[r] # NoResult
       /\ \E r \in Roles : synthArgs[r] # Empty
       /\ retryInvoked = {}

\* C25 witness: the supervisor is invoked with one role's slot empty and
\* another role's slot filled.
C25_Witness ==
    /\ rpc = "synth"
    /\ synthCalls = 1
    /\ \E r, q \in Roles : /\ recommendations[r] = NoResult
                           /\ synthArgs[r] = Empty
                           /\ recommendations[q] # NoResult

\* C26: at every point of recommend the output mapping holds, under a role's
\* name, only a non-null result of that very role, read with status SUCCESS;
\* a role that failed is absent from the mapping.
C26_MappingKeyedByOwnRole ==
    \A r \in Roles :
       /\ recommendations[r] # NoResult
            => /\ recommendations[r].role = r
               /\ recommendations[r] = task[r].result
               /\ readStatus[r] = SUCCESS
       /\ (PastGather /\ readStatus[r] # SUCCESS)
            => recommendations[r] = NoResult

\* C26 witness: the mapping holds the cost role's own result while the
\* location role, read as FAILURE, is absent.
C26_Witness ==
    /\ PastGather
    /\ recommendations["cost"] = Result("cost", pass, 0)
    /\ readStatus["location"] = FAILURE
    /\ recommendations["location"] = NoResult

\* C27: each role's result reaches the supervisor in that role's own
\* parameter, whatever the order in which the four runs ended; a role that is
\* not in the mapping is passed as the empty string.
C27_SlotRouting ==
    SynthInvoked
    => \A r \in Roles :
          synthArgs[r] = IF recommendations[r] # NoResult
                         THEN task[r].result ELSE Empty

\* C27 witness: the supervisor was invoked with all four slots filled.
C27_Witness ==
    /\ SynthInvoked
    /\ \A r \in Roles : synthArgs[r] = Result(r, pass, 0)

\* C28: each invocation of a role's run issues exactly one call of the
\* opaque scoring operation.
C28_OneScoringCallPerRun ==
    \A r \in Roles :
       /\ task[r].llm_calls <= 1
       /\ task[r].pc # "idle" => task[r].llm_calls = 1

\* The outcome of the role's most recently ended run under _retry_agent
LastRun(r) == rt[r].log[Len(rt[r].log)]

\* C29: a role's status reflects the outcome of its most recently ended run:
\* FAILURE after a run that failed, even when an earlier run on the same
\* instance had succeeded, and SUCCESS after a run that succeeded.
C29_StatusReflectsLastRun ==
    \A r \in Roles :
       Len(rt[r].log) > 0
       => /\ LastRun(r) = "fail" => agent_status[r] = FAILURE
          /\ LastRun(r) = "ok" => agent_status[r] = SUCCESS

PositionOf(r, v) == CHOOSE i \in RecordsOf(r, v) : TRUE

C32_ConcurrentCallsKeepOwnResults ==
    \A r \in Roles :
       /\ PastGather
            => (recommendations[r] # NoResult <=> Succeeded(r))
       /\ SynthInvoked
            => (synthArgs[r] # Empty <=> Succeeded(r))

\* The run of role r dispatched by the current call ends in this step
RunEnds(r) == InFlight(task[r]) /\ ~ InFlight(task'[r]) /\ pass' = pass

\* C33: a role's run never returns None: when it ends it either returns a
\* non-null result with the role's status set to SUCCESS, or it raises; so
\* recommend never finds all four results null.
C33_RunNeverReturnsNone ==
    [][/\ \A r \in Roles :
             RunEnds(r)
             => \/ /\ task'[r].pc = "ok"
                   /\ task'[r].result # NoResult
                   /\ agent_status'[r] = SUCCESS
                \/ task'[r].pc = "raised"
       /\ PastGather' => \E r \in Roles : InitialResults'[r] # NoResult]_vars

\* C33 witness: one run has raised after its opaque call failed and another
\* has returned its result.
C33_Witness ==
    /\ task["capacity"].pc = "raised" /\ task["capacity"].llm_raised
    /\ task["capacity"].result = NoResult
    /\ task["cost"].pc = "ok"
    /\ task["cost"].result = Result("cost", pass, 0)

\* C34: search_documents never raises, whatever the event: when the filter
\* cannot be built or the similarity search fails it returns the empty list.
C34_SearchNeverRaises ==
    /\ srch.pc # "raised"
    /\ (srch.pc = "returned" /\ srch.search_failed) => srch.documents = <<>>

====
